---- MODULE Spec2Model ----
(***************************************************************************)
(* Model of app/exporter.py: MetricExporter, the polling loop that clears  *)
(* two Prometheus gauges, queries the Azure cost API once per configured   *)
(* target and maps every returned row to gauge observations.               *)
(***************************************************************************)
EXTENDS Integers, Sequences, FiniteSets, TLC

VARIABLES
    group_by,               \* self.group_by (configuration, never reassigned)
    azure_daily_cost,       \* self.azure_daily_cost: label set -> value
    azure_daily_cost_usd,   \* self.azure_daily_cost_usd: label set -> value
    pc,                     \* position of run_metrics_loop / fetch
    acct,                   \* index into self.targets of fetch's for loop
    start_date,             \* fetch's local start_date
    rows,                   \* cost_response["rows"] of the current account
    ri,                     \* index of the next row of the inner for loop
    merged_minor_cost,      \* expose_metrics' local, as left by its last call
    merged_minor_cost_usd,  \* expose_metrics' local, as left by its last call
    error,                  \* the exception that ended the process, or "none"
    written,                \* history: label sets set on the native gauge this tick
    written_usd,            \* history: label sets set on the USD gauge this tick
    failed,                 \* history: accounts whose query failed this tick
    calls,                  \* history: the labels() calls of the last expose_metrics
    stale                   \* history: this tick's clear removed observations

vars == <<group_by, azure_daily_cost, azure_daily_cost_usd, pc, acct, start_date,
          rows, ri, merged_minor_cost, merged_minor_cost_usd, error,
          written, written_usd, failed, calls, stale>>

----------------------------------------------------------------------------
(* Bounds and inputs *)

\* the longest "rows" list a query returns
MaxRows == 2

\* self.targets: the configured accounts (all with the same keys)
targets ==
    << [TenantId |-> "t1", Subscription |-> "s1"],
       [TenantId |-> "t2", Subscription |-> "s2"] >>

\* the "groups" lists of the configurations
GroupLists ==
    { << [type |-> "Dimension", name |-> "ServiceName", label_name |-> "ServiceName"] >>,
      << [type |-> "Dimension", name |-> "ServiceName", label_name |-> "ServiceName"],
         [type |-> "Dimension", name |-> "ResourceLocation", label_name |-> "Region"] >> }

\* the group_by configurations the exporter is started with
GroupByConfigs ==
    { [enabled |-> e,
       groups |-> gs,
       merge_minor_cost |-> [enabled |-> m, threshold |-> 4, tag_value |-> "other"]]
      : e \in BOOLEAN, m \in BOOLEAN, gs \in GroupLists }

\* the values datetime.today() takes
Todays ==
    { [year |-> 2024, month |-> 1, day |-> 16],
      [year |-> 2024, month |-> 3, day |-> 1] }

\* a field of a row: a JSON number or a JSON string
Num(n) == [kind |-> "num", n |-> n, s |-> ""]
Str(s) == [kind |-> "str", n |-> 0, s |-> s]

----------------------------------------------------------------------------
(* Dates *)

IsLeap(y) == (y % 4 = 0 /\ y % 100 # 0) \/ y % 400 = 0

DaysInMonth(y, m) ==
    IF m = 2 THEN (IF IsLeap(y) THEN 29 ELSE 28)
    ELSE IF m \in {4, 6, 9, 11} THEN 30 ELSE 31

\* end_date - relativedelta(days=1)
MinusOneDay(dt) ==
    IF dt.day > 1 THEN [dt EXCEPT !.day = @ - 1]
    ELSE IF dt.month > 1
         THEN [year |-> dt.year, month |-> dt.month - 1,
               day |-> DaysInMonth(dt.year, dt.month - 1)]
         ELSE [year |-> dt.year - 1, month |-> 12, day |-> 31]

\* int(start_date.strftime("%Y%m%d"))
Ymd(dt) == dt.year * 10000 + dt.month * 100 + dt.day

----------------------------------------------------------------------------
(* The rows a query may return *)

\* costUsd of the sample rows (an exchange rate that is not the identity)
UsdOf(c) == c + 1

\* group values in Group Spec order, one per queried grouping
GroupValues(gb, g) ==
    IF gb.enabled
    THEN [i \in 1..Len(gb.groups) |-> Str(IF i = 1 THEN g ELSE "westeurope")]
    ELSE << >>

\* a row as the query contract shapes it:
\* [cost, costUsd, date, currency, ...groupValues]
ContractRow(gb, c, d, cur, g) ==
    << Num(c), Num(UsdOf(c)), Num(d), Str(cur) >> \o GroupValues(gb, g)

SampleRows(gb, sd, ed) ==
    { ContractRow(gb, 5, sd, "USD", "VM"),
      ContractRow(gb, 3, sd, "USD", "Storage"),
      ContractRow(gb, 3, sd, "EUR", "VM"),
      ContractRow(gb, -2, sd, "USD", "Storage"),
      ContractRow(gb, 5, ed, "USD", "VM"),
      \* malformed: the last field is missing
      SubSeq(ContractRow(gb, 5, sd, "USD", "VM"), 1,
             Len(ContractRow(gb, 5, sd, "USD", "VM")) - 1),
      \* malformed: the cost is not a number
      << Str("abc"), Num(6), Num(sd), Str("USD") >> \o GroupValues(gb, "VM"),
      \* malformed: no date field
      << Num(5), Num(6) >> }

RECURSIVE SeqsUpTo(_, _)
SeqsUpTo(S, n) ==
    IF n = 0 THEN { << >> }
    ELSE LET shorter == SeqsUpTo(S, n - 1)
         IN  shorter \cup { Append(q, x) : q \in { p \in shorter : Len(p) = n - 1 }, x \in S }

Responses(gb, sd, ed) == SeqsUpTo(SampleRows(gb, sd, ed), MaxRows)

----------------------------------------------------------------------------
(* __init__ and the gauges *)

\* the label_name of every configured group
GroupLabelNames(gb) == { gb.groups[i].label_name : i \in 1..Len(gb.groups) }

\* self.labels: the label names both gauges are constructed with
labels(gb) ==
    DOMAIN targets[1] \cup {"ChargeType", "Currency"}
        \cup (IF gb.enabled THEN GroupLabelNames(gb) ELSE {})

\* a gauge without children
EmptyGauge == << >>

\* gauge.labels(**kw).set(v) on a gauge whose children are g: the child of kw
\* is created or overwritten
GaugeSet(g, kw, v) == [ls \in DOMAIN g \cup {kw} |-> IF ls = kw THEN v ELSE g[ls]]

\* Gauge.labels(**kw) accepts kw only when its names are the label names the
\* gauge was constructed with (line 33); otherwise it raises ValueError
LabelNamesAccepted(gb, kw) == DOMAIN kw = labels(gb)

----------------------------------------------------------------------------
(* expose_metrics *)

\* the strings float() parses, with their values
NumericLiterals == ("3" :> 3) @@ ("5" :> 5)

\* float(x): a number stays, a numeric string is parsed, anything else raises
Float(f) ==
    IF f.kind = "num" THEN [ok |-> TRUE, v |-> f.n]
    ELSE IF f.s \in DOMAIN NumericLiterals
         THEN [ok |-> TRUE, v |-> NumericLiterals[f.s]]
         ELSE [ok |-> FALSE, v |-> 0]

\* a label value as the gauge stores it: str(value)
LabelValue(f) == IF f.kind = "str" THEN f.s ELSE ToString(f.n)

\* the state one call of expose_metrics works on
Frame(g, gu, mmc, mmcu) ==
    [g |-> g, gu |-> gu, mmc |-> mmc, mmcu |-> mmcu, err |-> "none", calls |-> << >>]

Raise(m, e) == IF m.err = "none" THEN [m EXCEPT !.err = e] ELSE m

\* one gauge.labels(**kw).set(v) statement, skipped once an exception is raised
LabelsSet(gb, m, usd, kw, v) ==
    IF m.err # "none" THEN m
    ELSE LET m1 == [m EXCEPT !.calls = Append(@, [usd |-> usd, kw |-> kw])]
         IN  IF ~LabelNamesAccepted(gb, kw) THEN Raise(m1, "ValueError")
             ELSE IF usd THEN [m1 EXCEPT !.gu = GaugeSet(@, kw, v)]
                         ELSE [m1 EXCEPT !.g = GaugeSet(@, kw, v)]

\* lines 88-89: the ungrouped observation
RowLabels(azure_account, result) ==
    azure_account @@ [ChargeType |-> "ActualCost", Currency |-> LabelValue(result[4])]

\* lines 93-96: group_key_values, label_name of group i bound to result[i + 3]
\* (i from 0 in the source, from 1 here, so that field is result[i + 3] of a
\* sequence numbered from 1)
GroupKeyValues(gb, result) ==
    [ k \in GroupLabelNames(gb) |->
        LET i == CHOOSE j \in 1..Len(gb.groups) :
                    /\ gb.groups[j].label_name = k
                    /\ \A l \in (j + 1)..Len(gb.groups) : gb.groups[l].label_name # k
        IN  LabelValue(result[i + 3]) ]

\* lines 102-103: the grouped observation
GroupedLabels(gb, azure_account, result) ==
    azure_account @@ GroupKeyValues(gb, result)
        @@ [ChargeType |-> "ActualCost", Currency |-> LabelValue(result[4])]

\* lines 106-110: every group label bound to the tag value
MergedGroupKeyValues(gb) ==
    [ k \in GroupLabelNames(gb) |-> gb.merge_minor_cost.tag_value ]

\* lines 111-116: the label set of the merged observation
MergedLabels(gb, azure_account) ==
    azure_account @@ MergedGroupKeyValues(gb) @@ [ChargeType |-> "ActualCost"]

\* line 98: the row is merged into the minor cost
IsMinor(gb, cost) ==
    gb.merge_minor_cost.enabled /\ cost < gb.merge_minor_cost.threshold

\* line 105: the merged observation is flushed
FlushNeeded(mmc) == mmc > 0

\* lines 87-89
ExposeUngrouped(gb, m, azure_account, result, cost, costUsd) ==
    IF Len(result) < 4 THEN Raise(m, "IndexError")
    ELSE LET kw == RowLabels(azure_account, result)
         IN  LabelsSet(gb, LabelsSet(gb, m, FALSE, kw, cost), TRUE, kw, costUsd)

\* lines 91-116
ExposeGrouped(gb, m, azure_account, result, cost, costUsd) ==
    LET m0 == [m EXCEPT !.mmc = 0, !.mmcu = 0]
    IN  IF Len(result) < Len(gb.groups) + 3 THEN Raise(m0, "IndexError")
        ELSE LET m1 == IF IsMinor(gb, cost)
                       THEN [m0 EXCEPT !.mmc = @ + cost, !.mmcu = @ + costUsd]
                       ELSE IF Len(result) < 4 THEN Raise(m0, "IndexError")
                       ELSE LET kw == GroupedLabels(gb, azure_account, result)
                            IN  LabelsSet(gb, LabelsSet(gb, m0, FALSE, kw, cost),
                                          TRUE, kw, costUsd)
             IN  IF m1.err = "none" /\ FlushNeeded(m1.mmc)
                 THEN LET kw == MergedLabels(gb, azure_account)
                      IN  LabelsSet(gb, LabelsSet(gb, m1, FALSE, kw, m1.mmc),
                                    TRUE, kw, m1.mmcu)
                 ELSE m1

\* expose_metrics(azure_account, result), lines 83-116
ExposeMetrics(gb, m, azure_account, result) ==
    LET cost == Float(result[1])
        costUsd == Float(result[2])
    IN  IF ~cost.ok \/ ~costUsd.ok THEN Raise(m, "ValueError")
        ELSE IF ~gb.enabled
             THEN ExposeUngrouped(gb, m, azure_account, result, cost.v, costUsd.v)
             ELSE ExposeGrouped(gb, m, azure_account, result, cost.v, costUsd.v)

\* the date filter left out: every row is taken
DateAccepted_NoFilter(result, sd) == TRUE

\* line 134: the row's date is the start date of the window
DateAccepted(result, sd) == result[3] = Num(Ymd(sd))

----------------------------------------------------------------------------
(* run_metrics_loop and fetch *)

Init ==
    /\ group_by \in GroupByConfigs
    /\ azure_daily_cost = EmptyGauge
    /\ azure_daily_cost_usd = EmptyGauge
    /\ pc = "clear"
    /\ acct = 1
    /\ start_date = MinusOneDay(CHOOSE t \in Todays : TRUE)
    /\ rows = << >>
    /\ ri = 1
    /\ merged_minor_cost = 0
    /\ merged_minor_cost_usd = 0
    /\ error = "none"
    /\ written = {}
    /\ written_usd = {}
    /\ failed = {}
    /\ calls = << >>
    /\ stale = FALSE

\* the label sets the accepted labels() calls of cs set on one gauge
SetBy(gb, cs, usd) ==
    { cs[i].kw : i \in { j \in 1..Len(cs) :
                           cs[j].usd = usd /\ LabelNamesAccepted(gb, cs[j].kw) } }

\* line 39: self.azure_daily_cost.clear()
Clear ==
    /\ pc = "clear"
    /\ azure_daily_cost' = EmptyGauge
    /\ stale' = (azure_daily_cost # EmptyGauge)
    /\ pc' = "clear_usd"
    /\ UNCHANGED <<group_by, azure_daily_cost_usd, acct, start_date, rows, ri,
                   merged_minor_cost, merged_minor_cost_usd, error,
                   written, written_usd, failed, calls>>

\* line 40 left out: the USD gauge keeps its children
ClearUsd_Missing ==
    /\ pc = "clear_usd"
    /\ pc' = "fetch"
    /\ acct' = 1
    /\ UNCHANGED <<group_by, azure_daily_cost, azure_daily_cost_usd, start_date, rows, ri,
                   merged_minor_cost, merged_minor_cost_usd, error,
                   written, written_usd, failed, calls, stale>>

\* line 40: self.azure_daily_cost_usd.clear(), then fetch() is entered
ClearUsd ==
    /\ pc = "clear_usd"
    /\ azure_daily_cost_usd' = EmptyGauge
    /\ pc' = "fetch"
    /\ acct' = 1
    /\ UNCHANGED <<group_by, azure_daily_cost, start_date, rows, ri,
                   merged_minor_cost, merged_minor_cost_usd, error,
                   written, written_usd, failed, calls, stale>>

\* lines 119-131: the query of the next target raises HttpResponseError
QueryFail ==
    /\ pc = "fetch"
    /\ acct <= Len(targets)
    /\ \E today \in Todays : start_date' = MinusOneDay(today)
    /\ failed' = failed \cup {acct}
    /\ acct' = acct + 1
    /\ UNCHANGED <<group_by, azure_daily_cost, azure_daily_cost_usd, pc, rows, ri,
                   merged_minor_cost, merged_minor_cost_usd, error,
                   written, written_usd, calls, stale>>

\* lines 119-128, 133: the query of the next target returns its rows
QueryOk ==
    /\ pc = "fetch"
    /\ acct <= Len(targets)
    /\ \E today \in Todays :
          /\ start_date' = MinusOneDay(today)
          /\ rows' \in Responses(group_by, Ymd(MinusOneDay(today)), Ymd(today))
    /\ ri' = 1
    /\ pc' = "rows"
    /\ UNCHANGED <<group_by, azure_daily_cost, azure_daily_cost_usd, acct,
                   merged_minor_cost, merged_minor_cost_usd, error,
                   written, written_usd, failed, calls, stale>>

\* line 134: result[2] of a row with fewer than three fields
RowIndexError ==
    /\ pc = "rows"
    /\ ri <= Len(rows)
    /\ Len(rows[ri]) < 3
    /\ pc' = "crashed"
    /\ error' = "IndexError"
    /\ UNCHANGED <<group_by, azure_daily_cost, azure_daily_cost_usd, acct, start_date,
                   rows, ri, merged_minor_cost, merged_minor_cost_usd,
                   written, written_usd, failed, calls, stale>>

\* lines 134-138: a row of another date is passed over
SkipRow ==
    /\ pc = "rows"
    /\ ri <= Len(rows)
    /\ Len(rows[ri]) >= 3
    /\ ~DateAccepted(rows[ri], start_date)
    /\ ri' = ri + 1
    /\ UNCHANGED <<group_by, azure_daily_cost, azure_daily_cost_usd, pc, acct,
                   start_date, rows, merged_minor_cost, merged_minor_cost_usd, error,
                   written, written_usd, failed, calls, stale>>

\* lines 139-140: expose_metrics on a row of the start date
ExposeRow ==
    /\ pc = "rows"
    /\ ri <= Len(rows)
    /\ Len(rows[ri]) >= 3
    /\ DateAccepted(rows[ri], start_date)
    /\ LET m == ExposeMetrics(group_by,
                    Frame(azure_daily_cost, azure_daily_cost_usd,
                          merged_minor_cost, merged_minor_cost_usd),
                    targets[acct], rows[ri])
       IN  /\ azure_daily_cost' = m.g
           /\ azure_daily_cost_usd' = m.gu
           /\ merged_minor_cost' = m.mmc
           /\ merged_minor_cost_usd' = m.mmcu
           /\ calls' = m.calls
           /\ written' = written \cup SetBy(group_by, m.calls, FALSE)
           /\ written_usd' = written_usd \cup SetBy(group_by, m.calls, TRUE)
           /\ error' = m.err
           /\ IF m.err = "none"
              THEN pc' = pc /\ ri' = ri + 1
              ELSE pc' = "crashed" /\ ri' = ri
    /\ UNCHANGED <<group_by, acct, start_date, rows, failed, stale>>

\* line 133: the rows are exhausted, the for loop of line 119 goes on
RowsDone ==
    /\ pc = "rows"
    /\ ri > Len(rows)
    /\ pc' = "fetch"
    /\ acct' = acct + 1
    /\ rows' = << >>
    /\ ri' = 1
    /\ merged_minor_cost' = 0
    /\ merged_minor_cost_usd' = 0
    /\ calls' = << >>
    /\ UNCHANGED <<group_by, azure_daily_cost, azure_daily_cost_usd, start_date,
                   error, written, written_usd, failed, stale>>

\* lines 119, 42-43: the targets are exhausted, fetch returns, the loop sleeps
FetchDone ==
    /\ pc = "fetch"
    /\ acct > Len(targets)
    /\ pc' = "sleep"
    /\ UNCHANGED <<group_by, azure_daily_cost, azure_daily_cost_usd, acct, start_date,
                   rows, ri, merged_minor_cost, merged_minor_cost_usd, error,
                   written, written_usd, failed, calls, stale>>

\* the clears hoisted out of the while loop: the next tick starts at fetch()
Sleep_SkipClear ==
    /\ pc = "sleep"
    /\ pc' = "fetch"
    /\ acct' = 1
    /\ written' = {}
    /\ written_usd' = {}
    /\ failed' = {}
    /\ UNCHANGED <<group_by, azure_daily_cost, azure_daily_cost_usd, start_date,
                   rows, ri, merged_minor_cost, merged_minor_cost_usd, error, calls,
                   stale>>

\* lines 43, 37: time.sleep returns and the next tick starts
Sleep ==
    /\ pc = "sleep"
    /\ pc' = "clear"
    /\ acct' = 1
    /\ written' = {}
    /\ written_usd' = {}
    /\ failed' = {}
    /\ UNCHANGED <<group_by, azure_daily_cost, azure_daily_cost_usd, start_date,
                   rows, ri, merged_minor_cost, merged_minor_cost_usd, error, calls,
                   stale>>

Next ==
    \/ Clear
    \/ ClearUsd
    \/ QueryFail
    \/ QueryOk
    \/ RowIndexError
    \/ SkipRow
    \/ ExposeRow
    \/ RowsDone
    \/ FetchDone
    \/ Sleep

Spec == Init /\ [][Next]_vars

TypeOK ==
    /\ pc \in {"clear", "clear_usd", "fetch", "rows", "sleep", "crashed"}
    /\ acct \in 1..(Len(targets) + 1)
    /\ error \in {"none", "ValueError", "IndexError"}

----------------------------------------------------------------------------
(* Vocabulary of the properties *)

\* the number of group values a row carries under gb
NumGroups(gb) == IF gb.enabled THEN Len(gb.groups) ELSE 0

\* [cost, costUsd, date, currency, ...groupValues in Group Spec order]
ContractShaped(gb, r) ==
    /\ Len(r) = 4 + NumGroups(gb)
    /\ \A k \in 1..3 : r[k].kind = "num"
    /\ \A k \in 4..Len(r) : r[k].kind = "str"

\* fewer fields than the policy expects, or a cost that is no number
Malformed(gb, r) ==
    \/ Len(r) < 4 + NumGroups(gb)
    \/ r[1].kind # "num"
    \/ Len(r) >= 2 /\ r[2].kind # "num"

\* the row's date field is the start date of the requested window
OfStartDate(r) == Len(r) >= 3 /\ r[3].kind = "num" /\ r[3].n = Ymd(start_date)

\* the row is below the merge threshold of an enabled merge policy
BelowThreshold(gb, r) ==
    gb.merge_minor_cost.enabled /\ r[1].n < gb.merge_minor_cost.threshold

\* the label set the row's observation is to carry: group i's output label
\* bound to the row's i-th group value
ObservationLabels(gb, account, r) ==
    account
      @@ [ k \in GroupLabelNames(gb) |->
             r[4 + (CHOOSE j \in 1..Len(gb.groups) : gb.groups[j].label_name = k)].s ]
      @@ [ChargeType |-> "ActualCost", Currency |-> r[4].s]

\* the rows of the current account that expose_metrics has been called on
Exposed ==
    { k \in 1..Len(rows) :
        /\ OfStartDate(rows[k])
        /\ \/ k < ri
           \/ k = ri /\ pc = "crashed" /\ Len(calls) > 0 }

\* the rows of the current account that were processed without an error
Passed == { k \in 1..Len(rows) : k < ri /\ pc = "rows" }

RECURSIVE SumOver(_, _, _)
SumOver(S, field, rs) ==
    IF S = {} THEN 0
    ELSE LET k == CHOOSE x \in S : TRUE
         IN  rs[k][field].n + SumOver(S \ {k}, field, rs)

\* the exposed rows of the current account that are below the threshold
MinorRows == { k \in Exposed : BelowThreshold(group_by, rows[k]) }

AllContractShaped == \A k \in 1..Len(rows) : ContractShaped(group_by, rows[k])

\* the label sets of a gauge that belong to an account
OfAccount(g, account) ==
    { ls \in DOMAIN g : \A k \in DOMAIN account : k \in DOMAIN ls /\ ls[k] = account[k] }

----------------------------------------------------------------------------
(* Properties *)

\* C1: in every tick both registries are cleared before any observation of the
\* tick is written and before any account is queried: until both clears are
\* done nothing is set, no account is queried, and fetch starts on two empty
\* registries.
C1_ClearBeforeWrite ==
    /\ pc \in {"clear", "clear_usd"} =>
          /\ written = {} /\ written_usd = {}
          /\ failed = {} /\ rows = << >> /\ acct = 1
    /\ (pc = "fetch" /\ acct = 1) =>
          /\ azure_daily_cost = EmptyGauge
          /\ azure_daily_cost_usd = EmptyGauge
    /\ pc \in {"fetch", "rows", "sleep", "crashed"} =>
          /\ DOMAIN azure_daily_cost \subseteq written
          /\ DOMAIN azure_daily_cost_usd \subseteq written_usd

\* C1 witness: a later tick has cleared observations of the tick before and
\* has then written its own.
C1_Witness ==
    /\ pc = "rows" /\ stale
    /\ written # {} /\ written_usd # {}

\* C2: a query failure on one account does not abort the tick: once an account
\* has failed, the tick does not end in an exception while it processes rows
\* shaped as the query contract states.
C2_FailureDoesNotAbortTick ==
    (failed # {} /\ pc = "crashed") => ~ContractShaped(group_by, rows[ri])

\* C3: with grouping enabled, every accepted contract-shaped row that is not
\* merged has an observation in both registries whose label set binds every
\* Group Spec's output label to the row's group value for that spec, with the
\* account's labels, ChargeType=ActualCost and the row's currency.
C3_GroupedObservation ==
    (pc = "rows" /\ group_by.enabled) =>
        \A k \in Passed :
            ( /\ ContractShaped(group_by, rows[k])
              /\ OfStartDate(rows[k])
              /\ ~BelowThreshold(group_by, rows[k]) )
            => /\ ObservationLabels(group_by, targets[acct], rows[k])
                    \in DOMAIN azure_daily_cost
               /\ ObservationLabels(group_by, targets[acct], rows[k])
                    \in DOMAIN azure_daily_cost_usd

\* C4: with grouping and merge enabled the accumulator runs over all rows of the
\* account: after each row it holds the sum of cost (and of costUsd) over the
\* account's accepted rows below the threshold seen so far.
C4_AccumulatorPerAccount ==
    ( /\ pc \in {"rows", "crashed"}
      /\ group_by.enabled /\ group_by.merge_minor_cost.enabled
      /\ AllContractShaped )
    => /\ merged_minor_cost = SumOver(MinorRows, 1, rows)
       /\ merged_minor_cost_usd = SumOver(MinorRows, 2, rows)

\* C5: when the accumulated minor cost is above zero the synthetic observation
\* (every group label the placeholder, ChargeType, no Currency) is written to
\* both registries; when it is not, no such observation exists.
C5_SyntheticObservation ==
    ( /\ pc \in {"rows", "crashed"}
      /\ group_by.enabled /\ group_by.merge_minor_cost.enabled
      /\ AllContractShaped )
    => LET ls == MergedLabels(group_by, targets[acct])
       IN  IF merged_minor_cost > 0
           THEN ls \in DOMAIN azure_daily_cost /\ ls \in DOMAIN azure_daily_cost_usd
           ELSE ls \notin DOMAIN azure_daily_cost /\ ls \notin DOMAIN azure_daily_cost_usd

\* C6: a row whose date field differs from the start date of the window is
\* discarded: the step that processes it changes neither registry nor the
\* accumulation, raises nothing, and moves on to the next row.
C6_DateMismatchDiscarded ==
    [][ ( /\ pc = "rows" /\ ri <= Len(rows)
          /\ Len(rows[ri]) >= 3
          /\ ~OfStartDate(rows[ri]) )
        => /\ azure_daily_cost' = azure_daily_cost
           /\ azure_daily_cost_usd' = azure_daily_cost_usd
           /\ merged_minor_cost' = merged_minor_cost
           /\ merged_minor_cost_usd' = merged_minor_cost_usd
           /\ written' = written /\ written_usd' = written_usd
           /\ error' = "none" /\ pc' = "rows"
           /\ ri' = ri + 1 ]_vars

\* C6 witness: a row of another date has been passed over, nothing was
\* written for it, and the next row is up.
C6_Witness ==
    /\ pc = "rows" /\ ri = 2 /\ ri <= Len(rows)
    /\ Len(rows[1]) >= 3 /\ ~OfStartDate(rows[1])
    /\ OfAccount(azure_daily_cost, targets[acct]) = {}
    /\ error = "none"

\* C7: every labels() call of the mapper supplies exactly the label names the
\* registries were constructed with.
C7_LabelKeysFixed ==
    \A i \in 1..Len(calls) : DOMAIN calls[i].kw = labels(group_by)

\* C8: a malformed row of the start date ends processing in an error: no such
\* row is ever passed without one.
C8_MalformedFailsLoudly ==
    \A k \in Passed : OfStartDate(rows[k]) => ~Malformed(group_by, rows[k])

\* C9: the loop has no terminal state: it never ends in an exception on rows
\* shaped as the query contract states.
C9_NoTerminalState ==
    pc = "crashed" => \E k \in 1..Len(rows) : ~ContractShaped(group_by, rows[k])

\* C10: at the end-of-tick sleep every label set of either registry was written
\* in this tick, and an account whose query failed in this tick has no
\* observation in either registry.
C10_NoStaleValue ==
    pc = "sleep" =>
        /\ DOMAIN azure_daily_cost = written
        /\ DOMAIN azure_daily_cost_usd = written_usd
        /\ \A a \in failed :
              /\ OfAccount(azure_daily_cost, targets[a]) = {}
              /\ OfAccount(azure_daily_cost_usd, targets[a]) = {}

\* C10 witness: the tick before left observations, in this tick every query
\* failed, and the tick sleeps on two empty registries.
C10_Witness ==
    /\ pc = "sleep" /\ stale
    /\ failed = 1..Len(targets)
    /\ azure_daily_cost = EmptyGauge /\ azure_daily_cost_usd = EmptyGauge

====
